---------------------------- MODULE Spec2Model ----------------------------
(***************************************************************************)
(* A model of CommentExtractor (src/comment_extractor.py): the dispatcher  *)
(* extract_comments, the Reddit tree parser extract_reddit_comments with   *)
(* its nested parse_comment, and the generic HTML extractor                *)
(* extract_generic_comments.                                               *)
(*                                                                         *)
(* Python values are tagged records [t, v] so that the isinstance tests,   *)
(* the truthiness tests and the failing subscripts of the code can be      *)
(* evaluated.  Strings are TLA+ strings; Len, \o and SubSeq act on them as *)
(* len(), + and slicing do in the code.                                    *)
(***************************************************************************)
EXTENDS Integers, Sequences, FiniteSets, TLC

VARIABLES
    url,        \* the URL handed to extract_comments
    site,       \* how the site answers a GET of that URL (the same every time)
    now,        \* the wall clock read by datetime.now()
    pc,         \* position of the running extraction, "idle" between calls
    requested,  \* the URL passed to session.get by the running extraction
    comments,   \* the local list `comments` of the running extraction
    stack,      \* pending for-loops of the Reddit walk: <<[nodes, depth], ...>>
    sel,        \* index into comment_selectors of the generic scan
    idx,        \* enumerate() index i of the generic scan
    history     \* what each completed call gave its caller: [value, error]

vars == <<url, site, now, pc, requested, comments, stack, sel, idx, history>>

---------------------------------------------------------------------------
(* Bounds of the model.                                                    *)

MaxNodes == 3
MaxElems == 2
MaxTail == 1
MaxClock == 1

---------------------------------------------------------------------------
(* Python values.                                                          *)

Str(s) == [t |-> "str", v |-> s]
Num(n) == [t |-> "num", v |-> n]
List(s) == [t |-> "list", v |-> s]
Dict(d) == [t |-> "dict", v |-> d]
None == [t |-> "none", v |-> 0]

EmptyDict == Dict([k \in {} |-> None])

\* d[k] succeeds: d is a dict holding k (anything else raises).
HasKey(d, k) == d.t = "dict" /\ k \in DOMAIN d.v

\* d.get(k, default)
Get(d, k, default) == IF k \in DOMAIN d.v THEN d.v[k] ELSE default

\* bool(x)
Truthy(x) ==
    CASE x.t = "str" -> x.v # ""
      [] x.t = "num" -> x.v # 0
      [] x.t = "list" -> x.v # <<>>
      [] x.t = "dict" -> DOMAIN x.v # {}
      [] OTHER -> FALSE

RECURSIVE SetToSeq(_)
SetToSeq(S) ==
    IF S = {} THEN <<>>
    ELSE LET x == CHOOSE y \in S : TRUE IN <<x>> \o SetToSeq(S \ {x})

\* `for item in x`: a list gives its items, a string its characters, a dict
\* its keys; a number or None is not iterable.
Iterable(x) == x.t \in {"list", "str", "dict"}
Items(x) ==
    CASE x.t = "list" -> x.v
      [] x.t = "str" -> [i \in 1..Len(x.v) |-> Str(SubSeq(x.v, i, i))]
      [] x.t = "dict" -> [i \in 1..Cardinality(DOMAIN x.v) |->
                             Str(SetToSeq(DOMAIN x.v)[i])]
      [] OTHER -> <<>>

RECURSIVE Rep(_, _)
Rep(c, n) ==
    IF n = 0 THEN ""
    ELSE LET h == Rep(c, n \div 2)
         IN IF n % 2 = 0 THEN h \o h ELSE h \o h \o c

---------------------------------------------------------------------------
(* Strings: the str methods the code calls.                                *)

EndsWith(s, suffix) ==
    Len(s) >= Len(suffix)
    /\ SubSeq(s, Len(s) - Len(suffix) + 1, Len(s)) = suffix

Contains(s, sub) ==
    \E i \in 1..(Len(s) - Len(sub) + 1) : SubSeq(s, i, i + Len(sub) - 1) = sub

RECURSIVE RStrip(_, _)
RStrip(s, c) ==
    IF s # "" /\ SubSeq(s, Len(s), Len(s)) = c
    THEN RStrip(SubSeq(s, 1, Len(s) - 1), c)
    ELSE s

Uppers == "ABCDEFGHIJKLMNOPQRSTUVWXYZ"
Lowers == "abcdefghijklmnopqrstuvwxyz"

LowerChar(c) ==
    IF \E i \in 1..26 : SubSeq(Uppers, i, i) = c
    THEN LET i == CHOOSE j \in 1..26 : SubSeq(Uppers, j, j) = c
         IN SubSeq(Lowers, i, i)
    ELSE c

RECURSIVE Lower(_)
Lower(s) ==
    IF s = "" THEN ""
    ELSE LowerChar(SubSeq(s, 1, 1)) \o Lower(SubSeq(s, 2, Len(s)))

\* Position of the first occurrence of sub in s at or after `from`, 0 if none.
Find(s, sub, from) ==
    LET hits == {i \in from..(Len(s) - Len(sub) + 1) :
                    SubSeq(s, i, i + Len(sub) - 1) = sub}
    IN IF hits = {} THEN 0 ELSE CHOOSE i \in hits : \A j \in hits : i <= j

\* urlparse(url).netloc: what lies between "//" and the next "/".
Netloc(u) ==
    LET a == Find(u, "//", 1)
    IN IF a = 0 THEN ""
       ELSE LET b == Find(u, "/", a + 2)
            IN IF b = 0 THEN SubSeq(u, a + 2, Len(u)) ELSE SubSeq(u, a + 2, b - 1)

---------------------------------------------------------------------------
(* The Reddit payloads the server may hold.  A node's id spells its place  *)
(* in the tree: "c" followed by one digit per level, the digit being the   *)
(* node's position among its siblings ("c21" is the first child of the     *)
(* second top-level node).                                                 *)

Digits == "123456789"
Digit(i) == SubSeq(Digits, i, i)

LongBody == Rep("x", 600)

\* {"data": {"children": [...]}}
Listing(children) == Dict([data |-> Dict([children |-> List(children)])])

\* The fields of a comment: all of them, with the replies r.
FullData(id, r) ==
    [author |-> Str("alice"), body |-> Str("hi"), score |-> Num(5),
     created_utc |-> Num(90061), id |-> Str(id),
     permalink |-> Str("/r/x/" \o id), replies |-> r]

\* A removed comment as Reddit serves it: the fields are present and hold
\* the placeholder values (the body is a long one here); no date.
LongData(id, r) ==
    [author |-> Str("[deleted]"), body |-> Str(LongBody), score |-> Num(0),
     id |-> Str(id), permalink |-> Str("/r/x/" \o id), replies |-> r]

\* A comment with none of the fields that have a default.
BareData(id, kids) ==
    IF kids = <<>> THEN [id |-> Str(id)]
    ELSE [id |-> Str(id), replies |-> Listing(kids)]

\* A "load more comments" stub.
MoreData(id, kids) ==
    IF kids = <<>> THEN [id |-> Str(id), count |-> Num(3)]
    ELSE [id |-> Str(id), count |-> Num(3), replies |-> Listing(kids)]

\* The kinds of node: those that may have children, and those that are leaves.
InnerLabels == {"full", "more"}
LeafLabels == {"full", "bare", "long", "more", "badreplies", "strreplies", "nokind"}

Node(label, id, kids) ==
    CASE label = "full" ->
           Dict([kind |-> Str("t1"),
                 data |-> Dict(FullData(id, IF kids = <<>> THEN Str("")
                                            ELSE Listing(kids)))])
      [] label = "bare" ->
           Dict([kind |-> Str("t1"), data |-> Dict(BareData(id, kids))])
      [] label = "long" ->
           Dict([kind |-> Str("t1"), data |-> Dict(LongData(id, Listing(kids)))])
      [] label = "more" ->
           Dict([kind |-> Str("more"), data |-> Dict(MoreData(id, kids))])
      [] label = "badreplies" ->
           Dict([kind |-> Str("t1"),
                 data |-> Dict(FullData(id, Dict([kind |-> Str("Listing")])))])
      [] label = "strreplies" ->
           Dict([kind |-> Str("t1"), data |-> Dict(FullData(id, Str("more")))])
      [] OTHER ->
           Dict([data |-> Dict(BareData(id, kids))])

\* The forests of exactly n nodes whose first top-level node is number `first`
\* among the children of the node with id `prefix`; in ForestsWith the first
\* node has at most k nodes below it.
RECURSIVE Forests(_, _, _)
RECURSIVE ForestsWith(_, _, _, _)
ForestsWith(n, prefix, first, k) ==
    LET id == prefix \o Digit(first)
    IN { <<Node(l, id, kids)>> \o rest :
           l \in (IF k = 0 THEN LeafLabels ELSE InnerLabels),
           kids \in Forests(k, id, 1),
           rest \in Forests(n - 1 - k, prefix, first + 1) }
       \cup (IF k = 0 THEN {} ELSE ForestsWith(n, prefix, first, k - 1))

Forests(n, prefix, first) ==
    IF n = 0 THEN {<<>>} ELSE ForestsWith(n, prefix, first, n - 1)

RECURSIVE ForestsUpTo(_)
ForestsUpTo(n) ==
    Forests(n, "c", 1) \cup (IF n = 0 THEN {} ELSE ForestsUpTo(n - 1))

\* Element 0 of the payload, the post listing.
PostListing == Listing(<<>>)

\* The payloads whose comment listing holds one of the forests, and four
\* that do not reach the walk.
Payloads(forests) ==
    {Dict([kind |-> Str("Listing")]),         \* not a list
     List(<<>>),                               \* the empty list
     List(<<PostListing>>),                    \* a list of length 1
     List(<<PostListing, EmptyDict>>)}         \* element 1 without 'data'
    \cup {List(<<PostListing, Listing(f)>>) : f \in forests}

\* session.get(url) followed by raise_for_status(): the response arrives with
\* a success status ("ok"), with another status, or not at all.
Refusals ==
    {[answer |-> "HTTPError", kind |-> "none"],
     [answer |-> "ConnectionError", kind |-> "none"]}

\* How the Reddit endpoint answers: it refuses, or serves a JSON document or
\* text that is no JSON.
RedditSites ==
    Refusals
    \cup {[answer |-> "ok", kind |-> "text"]}
    \cup {[answer |-> "ok", kind |-> "json", value |-> p] :
            p \in Payloads(ForestsUpTo(MaxNodes))}

---------------------------------------------------------------------------
(* extract_reddit_comments                                                 *)

RedditBase == "https://reddit.com"

\* datetime.fromtimestamp(ts): the day and the second of the day.
FromTimestamp(ts) == [day |-> ts \div 86400, sec |-> ts % 86400]

RECURSIVE Decimal(_)
Decimal(n) ==
    IF n < 10 THEN SubSeq("0123456789", n + 1, n + 1)
    ELSE Decimal(n \div 10) \o SubSeq("0123456789", (n % 10) + 1, (n % 10) + 1)

\* f"{x}" for the values a field holds here: a string, a number or None.
Format(x) ==
    CASE x.t = "str" -> x.v
      [] x.t = "num" -> Decimal(x.v)
      [] OTHER -> "None"

\* comment_obj['kind'] == 't1'
IsCommentAnyKind(comment_obj) == TRUE
IsComment(comment_obj) ==
    comment_obj.v.kind.t = "str" /\ comment_obj.v.kind.v = "t1"

\* The dict appended for one comment.
CommentRecord(comment_data, depth) ==
    [author |-> Get(comment_data, "author", Str("[deleted]")),
     text |-> Get(comment_data, "body", Str("[deleted]")),
     score |-> Get(comment_data, "score", Num(0)),
     created_utc |-> FromTimestamp(Get(comment_data, "created_utc", Num(0)).v),
     depth |-> depth,
     id |-> Get(comment_data, "id", Str("")),
     permalink |-> Str(RedditBase \o Format(Get(comment_data, "permalink", Str(""))))]

Raised(exc, emitted) == [raise |-> exc, emit |-> emitted, replies |-> <<>>]
Parsed(emitted, children) == [raise |-> "", emit |-> emitted, replies |-> children]

\* The replies a comment's loop iterates over, after its record was appended.
ParseReplies(comment_data, rec) ==
    IF "replies" \in DOMAIN comment_data.v /\ Truthy(comment_data.v.replies)
       /\ comment_data.v.replies.t = "dict"
    THEN LET replies == comment_data.v.replies
         IN IF ~HasKey(replies, "data") THEN Raised("KeyError", <<rec>>)
            ELSE IF ~HasKey(replies.v.data, "children")
            THEN Raised(IF replies.v.data.t = "dict" THEN "KeyError" ELSE "TypeError",
                        <<rec>>)
            ELSE IF ~Iterable(replies.v.data.v.children)
            THEN Raised("TypeError", <<rec>>)
            ELSE Parsed(<<rec>>, Items(replies.v.data.v.children))
    ELSE Parsed(<<rec>>, <<>>)

\* One call of parse_comment, up to its loop over the replies: what it
\* appends, what it raises, and the children its loop goes on to.
ParseComment(comment_obj, depth) ==
    IF ~HasKey(comment_obj, "kind")
    THEN Raised(IF comment_obj.t = "dict" THEN "KeyError" ELSE "TypeError", <<>>)
    ELSE IF ~IsComment(comment_obj) THEN Parsed(<<>>, <<>>)
    ELSE IF ~HasKey(comment_obj, "data") THEN Raised("KeyError", <<>>)
    ELSE LET comment_data == comment_obj.v.data
         IN IF comment_data.t # "dict" THEN Raised("AttributeError", <<>>)
            ELSE IF Get(comment_data, "created_utc", Num(0)).t # "num"
            THEN Raised("TypeError", <<>>)
            ELSE ParseReplies(comment_data, CommentRecord(comment_data, depth))

\* parse_comment(reply, depth + 1)
SameDepth(depth) == depth
ChildDepth(depth) == depth + 1

\* Entering the loop over a comment's replies: it runs to its end before the
\* loops that called it go on.
DescendLast(pending, children, depth) ==
    pending \o <<[nodes |-> children, depth |-> depth]>>
Descend(pending, children, depth) ==
    <<[nodes |-> children, depth |-> depth]>> \o pending

\* Loops that have no item left end.
RECURSIVE Unwind(_)
Unwind(pending) ==
    IF pending # <<>> /\ Head(pending).nodes = <<>>
    THEN Unwind(Tail(pending))
    ELSE pending

\* comments = []
KeptComments(previous) == previous
FreshComments(previous) == <<>>

\* comments.append(record), for the records of one step
ListPrepend(list, records) == records \o list
ListAppend(list, records) == list \o records

\* except Exception: ... return []
OnExceptionPartial(partial) == partial
OnException(partial) == <<>>

RedditDiagnostic(exc) == "Error extracting Reddit comments: " \o exc
GenericDiagnostic(exc) == "Error extracting generic comments: " \o exc

---------------------------------------------------------------------------
(* The HTML documents the server may hold.  An element is its class        *)
(* attribute, its id attribute ("" when it has none) and the strings of    *)
(* its text nodes, in document order.                                      *)

Limit == 50
MinText == 10
MaxText == 500

Element(class, id, strings) == [class |-> class, id |-> id, strings |-> strings]

Elements ==
    {Element("comment", "", <<"nice">>),
     Element("comment", "", <<" 0123456789 ">>),
     Element("comment highlighted", "", <<"01234", "\n 567890 ">>),
     Element("comment-item", "", <<Rep("x", 600)>>),
     Element("", "comment-42", <<Rep("y", 500)>>),
     Element("reply", "", <<Rep("z", 501)>>),
     Element("user-comments", "", <<"  a longer remark">>),
     Element("post", "", <<"the article itself">>)}

\* The elements a long page repeats.
PadElements ==
    {Element("comment", "", <<"ok">>),
     Element("comment", "", <<"hello world">>)}

RECURSIVE SeqsUpTo(_, _)
SeqsUpTo(S, n) ==
    IF n = 0 THEN {<<>>}
    ELSE SeqsUpTo(S, n - 1)
         \cup {Append(q, x) : q \in {r \in SeqsUpTo(S, n - 1) : Len(r) = n - 1},
                              x \in S}

Documents ==
    SeqsUpTo(Elements, MaxElems)
    \cup {[i \in 1..n |-> p] \o tail :
            p \in PadElements, n \in {Limit - 1, Limit}, tail \in SeqsUpTo(Elements, MaxTail)}

HtmlSites ==
    Refusals \cup {[answer |-> "ok", kind |-> "html", doc |-> d] : d \in Documents}

---------------------------------------------------------------------------
(* extract_generic_comments                                                *)

comment_selectors ==
    <<".comment", ".comment-item", ".comment-content",
      "[class*=\"comment\"]", "[id*=\"comment\"]",
      ".reply", ".response", ".discussion-item">>

IsSpace(c) == c \in {" ", "\n", "\t"}

\* str.strip()
RECURSIVE Strip(_)
Strip(s) ==
    IF s # "" /\ IsSpace(SubSeq(s, 1, 1)) THEN Strip(SubSeq(s, 2, Len(s)))
    ELSE IF s # "" /\ IsSpace(SubSeq(s, Len(s), Len(s)))
    THEN Strip(SubSeq(s, 1, Len(s) - 1))
    ELSE s

\* element.get_text(strip=True): the stripped strings, joined.
RECURSIVE JoinStripped(_)
JoinStripped(strings) ==
    IF strings = <<>> THEN ""
    ELSE Strip(Head(strings)) \o JoinStripped(Tail(strings))

GetText(element) == JoinStripped(element.strings)

\* The text between the quotes of an attribute selector.
Quoted(selector) ==
    LET a == Find(selector, "\"", 1)
        b == Find(selector, "\"", a + 1)
    IN SubSeq(selector, a + 1, b - 1)

AllElements == Elements \cup PadElements

\* Whether the element matches the selector: .name is a class token,
\* [class*="x"] and [id*="x"] a substring of the attribute.
Matches(element, selector) ==
    IF SubSeq(selector, 1, 1) = "."
    THEN Contains(" " \o element.class \o " ",
                  " " \o SubSeq(selector, 2, Len(selector)) \o " ")
    ELSE IF SubSeq(selector, 1, 8) = "[class*="
    THEN Contains(element.class, Quoted(selector))
    ELSE Contains(element.id, Quoted(selector))

\* The selectors each element matches, and each element's text.
MatchedBy ==
    [e \in AllElements |->
        {i \in 1..Len(comment_selectors) : Matches(e, comment_selectors[i])}]
TextOf == [e \in AllElements |-> GetText(e)]

\* soup.select(comment_selectors[i]): the matching elements in document order.
Select(soup, i) == SelectSeq(soup, LAMBDA e : i \in MatchedBy[e])

Min(a, b) == IF a < b THEN a ELSE b

\* comment_elements[:50]
CappedElements(comment_elements) ==
    SubSeq(comment_elements, 1, Min(Limit, Len(comment_elements)))

\* len(text) > 10
KeepsTextOfTen(text) == Len(text) >= MinText
KeepsText(text) == Len(text) > MinText

\* text[:500] + '...' if len(text) > 500 else text
Untruncated(text) == text
Truncate(text) ==
    IF Len(text) > MaxText
    THEN SubSeq(text, 1, Min(MaxText, Len(text))) \o "..."
    ELSE text

\* datetime.now()
DatetimeNow(clock) == FromTimestamp(clock)

\* The dict appended for one element.
GenericRecord(text, i, selector, clock) ==
    [author |-> Str("Unknown"),
     text |-> Str(Truncate(text)),
     score |-> None,
     created_utc |-> DatetimeNow(clock),
     depth |-> 0,
     id |-> Str("generic_" \o Decimal(i)),
     source |-> Str(selector)]

\* if comments: break
NeverBreaks(found) == FALSE
Breaks(found) == found # <<>>

---------------------------------------------------------------------------
(* extract_comments                                                        *)

Urls ==
    {"https://www.Reddit.com/r/x/comments/1/",
     "https://example.com/post"}

\* 'reddit.com' in urlparse(url).netloc.lower()
IsReddit(u) == Contains(Lower(Netloc(u)), "reddit.com")

\* The JSON endpoint of a Reddit URL.
JsonUrl(u) == IF ~EndsWith(u, ".json") THEN RStrip(u, "/") \o ".json" ELSE u

RedditUrls == {u \in Urls : IsReddit(u)}

---------------------------------------------------------------------------
(* The state machine: extract_comments is run twice on one URL, the site   *)
(* answering both requests the same way.  The clock counts from the first  *)
(* run.                                                                    *)

Init ==
    /\ url \in Urls
    /\ site \in (IF url \in RedditUrls THEN RedditSites ELSE HtmlSites)
    /\ now = 0
    /\ pc = "idle"
    /\ requested = ""
    /\ comments = <<>>
    /\ stack = <<>>
    /\ sel = 0
    /\ idx = 0
    /\ history = <<>>

\* Time passes between the two runs.
Tick ==
    /\ pc = "idle"
    /\ history # <<>>
    /\ now < MaxClock
    /\ now' = now + 1
    /\ UNCHANGED <<url, site, pc, requested, comments, stack, sel, idx, history>>

\* extract_reddit_comments from the request to the start of the loop over
\* the top-level comments: what it raises, or the comments the loop goes on to.
RedditEntry(response) ==
    IF response.answer # "ok" THEN [raise |-> response.answer, loop |-> <<>>]
    ELSE IF response.kind # "json" THEN [raise |-> "JSONDecodeError", loop |-> <<>>]
    ELSE LET data == response.value
         IN IF data.t = "list" /\ Len(data.v) > 1
            THEN IF ~HasKey(data.v[2], "data")
                 THEN [raise |-> "KeyError", loop |-> <<>>]
                 ELSE IF ~HasKey(data.v[2].v.data, "children")
                 THEN [raise |-> "KeyError", loop |-> <<>>]
                 ELSE IF ~Iterable(data.v[2].v.data.v.children)
                 THEN [raise |-> "TypeError", loop |-> <<>>]
                 ELSE [raise |-> "", loop |-> Items(data.v[2].v.data.v.children)]
            ELSE [raise |-> "", loop |-> <<>>]

\* extract_comments on a Reddit URL: extract_reddit_comments up to its loop.
ExtractRedditComments ==
    /\ pc = "idle"
    /\ Len(history) < 2
    /\ url \in RedditUrls
    /\ requested' = JsonUrl(url)
    /\ comments' = FreshComments(comments)
    /\ LET entry == RedditEntry(site)
       IN IF entry.raise # ""
          THEN /\ history' = Append(history,
                               [value |-> OnException(comments'),
                                error |-> RedditDiagnostic(entry.raise)])
               /\ pc' = "idle"
               /\ stack' = <<>>
          ELSE /\ stack' = Unwind(<<[nodes |-> entry.loop, depth |-> 0]>>)
               /\ pc' = IF stack' = <<>> THEN "return" ELSE "parse"
               /\ UNCHANGED history
    /\ UNCHANGED <<url, site, now, sel, idx>>

\* One call of parse_comment: on the next comment of the innermost loop.
ParseCommentCall ==
    /\ pc = "parse"
    /\ LET frame == Head(stack)
           pending == <<[frame EXCEPT !.nodes = Tail(@)]>> \o Tail(stack)
           out == ParseComment(Head(frame.nodes), frame.depth)
       IN /\ comments' = ListAppend(comments, out.emit)
          /\ IF out.raise # ""
             THEN /\ history' = Append(history,
                                  [value |-> OnException(comments'),
                                   error |-> RedditDiagnostic(out.raise)])
                  /\ pc' = "idle"
                  /\ stack' = <<>>
             ELSE /\ stack' = Unwind(IF out.replies = <<>> THEN pending
                                     ELSE Descend(pending, out.replies,
                                                  ChildDepth(frame.depth)))
                  /\ pc' = IF stack' = <<>> THEN "return" ELSE "parse"
                  /\ UNCHANGED history
    /\ UNCHANGED <<url, site, now, requested, sel, idx>>

\* extract_comments on any other URL: extract_generic_comments up to its
\* loop over the selectors.
ExtractGenericComments ==
    /\ pc = "idle"
    /\ Len(history) < 2
    /\ url \notin RedditUrls
    /\ requested' = url
    /\ comments' = FreshComments(comments)
    /\ IF site.answer # "ok"
       THEN /\ history' = Append(history,
                            [value |-> OnException(comments'),
                             error |-> GenericDiagnostic(site.answer)])
            /\ pc' = "idle"
            /\ sel' = 0
       ELSE /\ pc' = "select"
            /\ sel' = 1
            /\ UNCHANGED history
    /\ idx' = 0
    /\ UNCHANGED <<url, site, now, stack>>

\* The loop over the selectors goes on to the next one, or ends.
NextSelector ==
    IF sel < Len(comment_selectors)
    THEN pc' = "select" /\ sel' = sel + 1
    ELSE pc' = "return" /\ sel' = sel

\* soup.select(selector) and the test of its result.
TrySelector ==
    /\ pc = "select"
    /\ IF Select(site.doc, sel) = <<>>
       THEN NextSelector
       ELSE pc' = "scan" /\ sel' = sel
    /\ idx' = 0
    /\ UNCHANGED <<url, site, now, requested, comments, stack, history>>

\* One pass of the loop over the selector's elements; after the last one,
\* the test that ends the loop over the selectors.
ScanElement ==
    /\ pc = "scan"
    /\ LET elements == CappedElements(Select(site.doc, sel))
           text == TextOf[elements[idx + 1]]
          record == GenericRecord(text, idx, comment_selectors[sel], now)
       IN /\ comments' = IF KeepsText(text)
                         THEN ListAppend(comments, <<record>>)
                         ELSE comments
          /\ IF idx + 1 < Len(elements)
             THEN idx' = idx + 1 /\ pc' = "scan" /\ sel' = sel
             ELSE /\ idx' = 0
                  /\ IF Breaks(comments')
                     THEN pc' = "return" /\ sel' = sel
                     ELSE NextSelector
    /\ UNCHANGED <<url, site, now, requested, stack, history>>

\* return comments
Return ==
    /\ pc = "return"
    /\ history' = Append(history, [value |-> comments, error |-> ""])
    /\ pc' = "idle"
    /\ stack' = <<>>
    /\ sel' = 0
    /\ idx' = 0
    /\ UNCHANGED <<url, site, now, requested, comments>>

Next ==
    \/ Tick
    \/ ExtractRedditComments
    \/ ParseCommentCall
    \/ ExtractGenericComments
    \/ TrySelector
    \/ ScanElement
    \/ Return

Spec == Init /\ [][Next]_vars

---------------------------------------------------------------------------
(* What the claims speak of.                                               *)

RedditRun == url \in RedditUrls
GenericRun == url \notin RedditUrls

\* The payload passes the test of its shape: a list of length > 1.
ValidPayload ==
    /\ site.answer = "ok"
    /\ site.kind = "json"
    /\ site.value.t = "list"
    /\ Len(site.value.v) > 1

WellFormedListing(x) ==
    /\ HasKey(x, "data")
    /\ HasKey(x.v.data, "children")
    /\ x.v.data.v.children.t = "list"

ChildrenOf(listing) == listing.v.data.v.children.v

IsT1(node) == HasKey(node, "kind") /\ node.v.kind = Str("t1")

\* The node's 'replies' is a non-empty dict.
HasDictReplies(node) ==
    /\ "replies" \in DOMAIN node.v.data.v
    /\ node.v.data.v.replies.t = "dict"
    /\ DOMAIN node.v.data.v.replies.v # {}

\* Every node the walk comes to has the shape the walk reads.
RECURSIVE WellFormedNodes(_)
WellFormedNodes(nodes) ==
    \A i \in 1..Len(nodes) :
        LET node == nodes[i]
        IN /\ HasKey(node, "kind")
           /\ IsT1(node) =>
                /\ HasKey(node, "data")
                /\ node.v.data.t = "dict"
                /\ "created_utc" \in DOMAIN node.v.data.v
                     => node.v.data.v.created_utc.t = "num"
                /\ HasDictReplies(node) =>
                     /\ WellFormedListing(node.v.data.v.replies)
                     /\ WellFormedNodes(ChildrenOf(node.v.data.v.replies))

WellFormedPayload ==
    /\ ValidPayload
    /\ WellFormedListing(site.value.v[2])
    /\ WellFormedNodes(ChildrenOf(site.value.v[2]))

\* The data of the 't1' nodes reachable from `nodes` through the dict-shaped
\* replies of 't1' nodes.
RECURSIVE ReachableComments(_)
ReachableComments(nodes) ==
    UNION {
      LET node == nodes[i]
      IN IF IsT1(node)
         THEN {node.v.data}
              \cup (IF HasDictReplies(node)
                    THEN ReachableComments(ChildrenOf(node.v.data.v.replies))
                    ELSE {})
         ELSE {}
      : i \in 1..Len(nodes) }

Reachable == ReachableComments(ChildrenOf(site.value.v[2]))

\* The calls that returned their list (no exception was caught).
Returned == {k \in 1..Len(history) : history[k].error = ""}

Ids(records) == {records[i].id : i \in 1..Len(records)}

\* C1: on a payload that is a list of length > 1 with a well-formed comment
\* listing, extract_reddit_comments returns exactly one record per 't1' node
\* reachable through the dict-shaped replies of 't1' nodes, and no record for
\* a node of another kind.
C1_OneRecordPerReachableComment ==
    (pc = "idle" /\ RedditRun /\ WellFormedPayload) =>
        \A k \in 1..Len(history) :
            /\ history[k].error = ""
            /\ Len(history[k].value) = Cardinality(Reachable)
            /\ Ids(history[k].value) = {d.v.id : d \in Reachable}

\* A 'more' stub whose replies hold a comment stands beside the one comment
\* that was returned.
C1_Witness ==
    /\ pc = "idle" /\ RedditRun /\ WellFormedPayload
    /\ history # <<>>
    /\ Len(history[1].value) = 1
    /\ \E i \in 1..Len(ChildrenOf(site.value.v[2])) :
         LET node == ChildrenOf(site.value.v[2])[i]
         IN /\ node.v.kind = Str("more")
            /\ HasDictReplies(node)
            /\ \E j \in 1..Len(ChildrenOf(node.v.data.v.replies)) :
                 IsT1(ChildrenOf(node.v.data.v.replies)[j])

\* The number of comment nodes above the node with this id: an id has one
\* digit per level after its "c".
Ancestors(id) == Len(id.v) - 2
ParentId(id) == Str(SubSeq(id.v, 1, Len(id.v) - 1))

DepthsReflectNesting(records) ==
    \A i \in 1..Len(records) :
        /\ records[i].depth = Ancestors(records[i].id)
        /\ Ancestors(records[i].id) = 0 => records[i].depth = 0
        /\ Ancestors(records[i].id) > 0 =>
             \E j \in 1..Len(records) :
                 /\ records[j].id = ParentId(records[i].id)
                 /\ records[i].depth = records[j].depth + 1

\* C2: the depth of every record of extract_reddit_comments is the number of
\* comment nodes above its node: 0 at the top level, the parent's depth plus 1
\* for a reply.
C2_DepthIsNesting ==
    RedditRun =>
        /\ DepthsReflectNesting(comments)
        /\ \A k \in 1..Len(history) : DepthsReflectNesting(history[k].value)

\* A reply to a reply was returned, at depth 2.
C2_Witness ==
    /\ pc = "idle" /\ RedditRun /\ history # <<>>
    /\ \E i \in 1..Len(history[1].value) :
         history[1].value[i].depth = 2 /\ Ancestors(history[1].value[i].id) = 2

DigitValue(c) == CHOOSE i \in 1..9 : Digit(i) = c

\* Pre-order on ids: a node comes before its descendants, and before the
\* later siblings of itself and of its ancestors.
RECURSIVE PathBefore(_, _)
PathBefore(a, b) ==
    IF a = "" THEN b # ""
    ELSE IF b = "" THEN FALSE
    ELSE IF SubSeq(a, 1, 1) = SubSeq(b, 1, 1)
    THEN PathBefore(SubSeq(a, 2, Len(a)), SubSeq(b, 2, Len(b)))
    ELSE DigitValue(SubSeq(a, 1, 1)) < DigitValue(SubSeq(b, 1, 1))

Path(id) == SubSeq(id.v, 2, Len(id.v))

\* C3: the sequence extract_reddit_comments returns is in pre-order: a comment
\* before its descendants, its descendants before its next sibling, siblings
\* in source order.
C3_PreOrder ==
    (pc = "idle" /\ RedditRun) =>
        \A k \in Returned :
            \A i, j \in 1..Len(history[k].value) :
                i < j => PathBefore(Path(history[k].value[i].id),
                                    Path(history[k].value[j].id))

\* A comment, its reply, then the comment's next sibling.
C3_Witness ==
    /\ pc = "idle" /\ RedditRun /\ history # <<>>
    /\ Len(history[1].value) = 3
    /\ history[1].value[1].id = Str("c1")
    /\ history[1].value[2].id = Str("c11")
    /\ history[1].value[3].id = Str("c2")

\* C4: neither extractor raises to its caller, and a call in which anything
\* failed (no response, a non-success status, text that is no JSON, a node of
\* unexpected shape met in the walk) returns the empty sequence, whatever was
\* appended before; so does a payload that is no list of length > 1.
C4_FailureGivesEmpty ==
    pc = "idle" =>
        /\ requested # "" => history # <<>>
        /\ \A k \in 1..Len(history) :
             /\ history[k].error # "" => history[k].value = <<>>
             /\ site.answer # "ok" =>
                  history[k].error # "" /\ history[k].value = <<>>
             /\ (RedditRun /\ site.answer = "ok" /\ site.kind # "json") =>
                  history[k].error # "" /\ history[k].value = <<>>
             /\ (RedditRun /\ site.answer = "ok" /\ site.kind = "json"
                 /\ ~ValidPayload) => history[k].value = <<>>
             /\ (RedditRun /\ ValidPayload /\ ~WellFormedPayload) =>
                  history[k].error # "" /\ history[k].value = <<>>

\* A walk failed after it had appended a record, and the caller got nothing.
C4_Witness ==
    /\ pc = "idle" /\ history # <<>>
    /\ history[Len(history)].error # ""
    /\ comments # <<>>
    /\ history[Len(history)].value = <<>>

\* The selector's surviving candidates: the places, among its first 50
\* matches, of the elements whose text is longer than 10 characters.
Survivors(i) ==
    LET matched == Select(site.doc, i)
    IN SelectSeq([j \in 1..(IF Len(matched) < 50 THEN Len(matched) ELSE 50) |-> j],
                 LAMBDA j : Len(TextOf[matched[j]]) > 10)

\* The selectors that have a surviving candidate; 0 stands for none of them.
Winners == {i \in 1..Len(comment_selectors) : Survivors(i) # <<>>}
EarliestOf(S) == IF S = {} THEN 0 ELSE CHOOSE i \in S : \A j \in S : i <= j
Winner == EarliestOf(Winners)

GenericAnswered == GenericRun /\ site.answer = "ok"

\* C5: extract_generic_comments returns the records of the earliest selector
\* of the list that has a surviving candidate: every record carries that
\* selector as its source, and the result is empty exactly when no selector
\* has one.
C5_FirstSurvivingSelectorWins ==
    (pc = "idle" /\ GenericAnswered /\ history # <<>>) =>
        LET winner == Winner
        IN \A k \in 1..Len(history) :
               /\ history[k].error = ""
               /\ history[k].value = <<>> <=> winner = 0
               /\ \A i \in 1..Len(history[k].value) :
                    history[k].value[i].source = Str(comment_selectors[winner])

\* A selector that matched elements, all of them filtered out, was passed
\* over and a later selector gave the result.
C5_Witness ==
    /\ pc = "idle" /\ GenericAnswered /\ history # <<>>
    /\ history[1].value # <<>>
    /\ \E i \in 1..(Winner - 1) : Select(site.doc, i) # <<>>

\* C9: the result of the winning selector holds, in match order, exactly the
\* elements among its first 50 matches whose text is longer than 10
\* characters, each with the id 'generic_<i>', i being the element's place
\* among the matches (from 0); so it has at most 50 records, with distinct
\* ids, every i below 50.
C9_WinningSelectorRecords ==
    (pc = "idle" /\ GenericAnswered /\ history # <<>>) =>
        LET winner == Winner
            kept == IF winner = 0 THEN <<>> ELSE Survivors(winner)
        IN winner # 0 =>
             \A k \in 1..Len(history) :
                 LET got == history[k].value
                 IN /\ Len(got) = Len(kept)
                    /\ \A i \in 1..Len(got) :
                         /\ got[i].id = Str("generic_" \o Decimal(kept[i] - 1))
                         /\ kept[i] - 1 < 50
                    /\ Len(got) <= 50
                    /\ Cardinality(Ids(got)) = Len(got)

\* More than 50 elements matched the winning selector and 50 were returned.
C9_Witness ==
    /\ pc = "idle" /\ GenericAnswered /\ history # <<>>
    /\ Winner # 0
    /\ Len(Select(site.doc, Winner)) > 50
    /\ Len(history[1].value) = 50

TextLengths(records) == {Len(records[i].text.v) : i \in 1..Len(records)}

\* C6 as stated: in every record either extractor returns, the text has at
\* most 500 + 3 characters.
C6_Original ==
    pc = "idle" =>
        \A k \in 1..Len(history) : \A n \in TextLengths(history[k].value) : n <= 503

\* C6 amended: in every record extract_generic_comments returns, the text has
\* at most 500 + 3 characters, and an element text of 600 characters gives a
\* text of 503.
C6_GenericTextIsCapped ==
    (pc = "idle" /\ GenericAnswered /\ history # <<>>) =>
        LET winner == Winner
            matched == IF winner = 0 THEN <<>> ELSE Select(site.doc, winner)
            kept == IF winner = 0 THEN <<>> ELSE Survivors(winner)
        IN \A k \in 1..Len(history) :
               /\ \A n \in TextLengths(history[k].value) : n <= 503
               /\ Len(history[k].value) = Len(kept)
               /\ \A i \in 1..Len(kept) :
                    Len(TextOf[matched[kept[i]]]) = 600
                        => Len(history[k].value[i].text.v) = 503

\* An element text of 600 characters was returned as 503.
C6_Witness ==
    /\ pc = "idle" /\ GenericAnswered /\ history # <<>>
    /\ Winner # 0
    /\ Len(TextOf[Select(site.doc, Winner)[Survivors(Winner)[1]]]) = 600
    /\ Len(history[1].value) >= 1
    /\ Len(history[1].value[1].text.v) = 503

BothReturned == Len(history) = 2 /\ Returned = {1, 2}

\* C7 as stated: two runs of extract_comments on the same body return
\* sequences equal in order and in every field.
C7_Original == BothReturned => history[1].value = history[2].value

WithoutDate(record) == [record EXCEPT !.created_utc = 0]

\* C7 amended: two runs of extract_comments on the same body return the same
\* number of records in the same order; the records of the Reddit parser are
\* equal in every field, those of the generic extractor in every field but
\* created_utc, which holds the time of the run.
C7_SameButForTheDate ==
    BothReturned =>
        /\ Len(history[1].value) = Len(history[2].value)
        /\ \A i \in 1..Len(history[1].value) :
             IF RedditRun
             THEN history[1].value[i] = history[2].value[i]
             ELSE WithoutDate(history[1].value[i]) = WithoutDate(history[2].value[i])

\* Two runs of the generic extractor at different times returned records
\* that differ in their date only.
C7_Witness ==
    /\ BothReturned /\ GenericRun
    /\ history[1].value # <<>>
    /\ history[1].value[1].created_utc # history[2].value[1].created_utc

\* The data of the node a record was made from.
DataOf(record) == CHOOSE d \in Reachable : d.v.id = record.id

FieldOr(d, k, default) == IF k \in DOMAIN d.v THEN d.v[k] ELSE default

\* C8: a record's permalink is the platform's base URL followed by the node's
\* permalink when the node has one, and the empty string when it has none;
\* author, text and score are the node's fields, and '[deleted]', '[deleted]'
\* and 0 when the field is missing.
C8_Claim ==
    (pc = "idle" /\ RedditRun /\ WellFormedPayload) =>
        \A k \in 1..Len(history) : \A i \in 1..Len(history[k].value) :
            LET record == history[k].value[i]
                d == DataOf(record)
            IN /\ record.permalink =
                    (IF "permalink" \in DOMAIN d.v
                     THEN Str(RedditBase \o d.v.permalink.v)
                     ELSE Str(""))
               /\ record.author = FieldOr(d, "author", Str("[deleted]"))
               /\ record.text = FieldOr(d, "body", Str("[deleted]"))
               /\ record.score = FieldOr(d, "score", Num(0))

IsPrefix(a, b) == Len(a) <= Len(b) /\ SubSeq(b, 1, Len(a)) = a

\* C10: while an extraction runs, its list only grows at the end: the records
\* appended so far are a prefix of the list after every step of the walk or
\* of the scan.
C10_AppendOnly == [][pc # "idle" => IsPrefix(comments, comments')]_vars

\* Two records were appended and the walk is two loops deep.
C10_Witness ==
    /\ pc = "parse"
    /\ Len(comments) >= 2
    /\ Len(stack) >= 2

===========================================================================
